---- MODULE Spec2Model ----
(***************************************************************************)
(* unrolled/render: the template compilation and lookup engine.            *)
(*                                                                         *)
(* The renderer (Render) owns one shared template set, r.templates.  New   *)
(* compiles it; HTML recompiles it first when Options.IsDevelopment is     *)
(* set, binds yield/current when a layout is in force, executes the        *)
(* template into a buffer and writes the response.  Several HTML calls may *)
(* run at once on one renderer; every access to the shared set is one step *)
(* of the model.                                                           *)
(*                                                                         *)
(* Strings that the program takes apart (paths, template names) are        *)
(* sequences of tokens: a token is "/", "." or a run of other characters.  *)
(* A template body is a sequence of parsed items: literal text or one of   *)
(* the actions of Actions.  Rendered output is a string.                   *)
(***************************************************************************)
EXTENDS Integers, Sequences, FiniteSets, TLC

\* ------------------------------------------------------------------ bounds

\* Number of request goroutines that may call the renderer at once.
NProcs == 2
\* Number of render calls made on one renderer over its lifetime.
MaxCalls == 2
\* Number of times the backing files are edited after construction.
MaxEdits == 1
\* Depth of nested template executions (yield inside yield) followed before
\* the recursion is taken to be unbounded.
MaxDepth == 3

\* --------------------------------------------------------- program constants

ContentType == "Content-Type"
ContentJSON == "application/json"
ContentHTML == "text/html"
ContentXML == "text/xml"
ContentBinary == "application/octet-stream"
ContentText == "text/plain"
defaultCharset == "UTF-8"
StatusInternalServerError == 500

\* ------------------------------------------------------------- sequences

RECURSIVE IndexFrom(_, _, _)
\* Position of the first occurrence of tok in s at or after i, 0 when absent.
IndexFrom(s, tok, i) ==
    IF i > Len(s) THEN 0
    ELSE IF s[i] = tok THEN i
    ELSE IndexFrom(s, tok, i + 1)

\* strings.Index(rel, "."): 0 stands for Go's -1.
Index(s, tok) == IndexFrom(s, tok, 1)

RECURSIVE JoinStr(_)
\* The string a token sequence spells.
JoinStr(s) == IF s = <<>> THEN "" ELSE Head(s) \o JoinStr(Tail(s))

HasPrefix(s, p) == Len(p) <= Len(s) /\ SubSeq(s, 1, Len(p)) = p

\* ------------------------------------------------------------------ paths

\* os.PathSeparator of the build the tests run on.
Separator == "/"

\* filepath.ToSlash: every Separator becomes "/".
ToSlash(p) == [i \in 1..Len(p) |-> IF p[i] = Separator THEN "/" ELSE p[i]]

\* filepath.Rel(dir, path) for a path the walk of dir produced: "." for dir
\* itself, otherwise the part below dir.  No walk yields a path outside dir,
\* so Rel never fails here.
Rel(dir, path) ==
    IF path = dir THEN <<".">>
    ELSE IF dir = <<".">> THEN path
    ELSE IF HasPrefix(path, dir \o <<Separator>>)
         THEN SubSeq(path, Len(dir) + 2, Len(path))
         ELSE path

\* The extension as filepath.Ext would give it: the final suffix.
ExtOfFinalSuffix(rel) ==
    LET dots == { i \in 1..Len(rel) : rel[i] = "." }
    IN  IF dots # {}
            THEN SubSeq(rel, CHOOSE i \in dots : \A j \in dots : j <= i, Len(rel))
            ELSE <<>>

\* The extension compileTemplates computes: "." followed by everything after
\* the first "." of rel, empty when rel holds no ".".
ExtOf(rel) ==
    IF Index(rel, ".") # 0 THEN SubSeq(rel, Index(rel, "."), Len(rel)) ELSE <<>>

\* name := rel[0 : len(rel)-len(ext)]
NameOf(rel, ext) == SubSeq(rel, 1, Len(rel) - Len(ext))

\* -------------------------------------------------------------- templates

\* The actions a template body may hold besides literal text.  "{{" is an
\* action that is never closed: a syntax error.
Actions == {"{{.}}", "{{yield}}", "{{current}}", "{{"}

\* The function an action calls ("" when it calls none).
FuncOf(item) ==
    IF item = "{{yield}}" THEN "yield"
    ELSE IF item = "{{current}}" THEN "current"
    ELSE ""

\* The function names of the model: those of helperFuncs, and one only an
\* application's FuncMap defines.
FuncNames == {"yield", "current", "partial", "title"}
HelperNames == {"yield", "current", "partial"}

\* One entry of a function table.  kind "undefined": no such function.
Impl(kind, name, binding) == [kind |-> kind, name |-> name, binding |-> binding]
Undefined == Impl("undefined", <<>>, "")

\* A function of an application's FuncMap: it returns the given text.
UserFunc(text) == Impl("user", <<>>, text)

\* Stand-ins that all emit nothing.
helperFuncsSilent == [f \in HelperNames |-> Impl("currentEmpty", <<>>, "")]

\* A FuncMap is a function from some of FuncNames to implementations.
\* helperFuncs: the stand-ins every compiled template gets.
helperFuncs ==
    [f \in HelperNames |->
        IF f = "yield" THEN Impl("yieldNoLayout", <<>>, "")
        ELSE IF f = "partial" THEN Impl("partialNoLayout", <<>>, "")
        ELSE Impl("currentEmpty", <<>>, "")]

\* The FuncMap addYield builds for one call: yield executes (name, binding),
\* current returns name.
yieldFuncs(name, binding) ==
    [f \in {"yield", "current"} |->
        IF f = "yield" THEN Impl("yield", name, binding)
        ELSE Impl("current", name, "")]

\* (*Template).Funcs: the entries of funcMap replace those of the set's
\* table, which all templates of the set share.
Funcs(table, funcMap) ==
    [f \in FuncNames |-> IF f \in DOMAIN funcMap THEN funcMap[f] ELSE table[f]]

RECURSIVE FuncsAll(_, _)
\* for _, funcs := range r.opt.Funcs { tmpl.Funcs(funcs) }
FuncsAll(table, bundles) ==
    IF bundles = <<>> THEN table
    ELSE FuncsAll(Funcs(table, Head(bundles)), Tail(bundles))

\* A template set (*template.Template and the templates associated with
\* it).  units: name -> parsed body, or Incomplete for a unit that was
\* registered and never parsed.  funcs: the shared function table.
\* escaped: the set has been executed (html/template then refuses to Parse).
Incomplete == <<"<incomplete>">>

\* template.New(dir): a set with no unit and no function.
NewSet == [units |-> <<>>, funcs |-> [f \in FuncNames |-> Undefined],
           escaped |-> FALSE]

\* Does parsing body into a set with table funcs succeed?  It fails after
\* the set was executed, on a syntax error, and on a call of a function the
\* table does not define.
ParseOK(body, funcs, escaped) ==
    /\ ~escaped
    /\ \A i \in 1..Len(body) :
          /\ body[i] # "{{"
          /\ FuncOf(body[i]) # "" => funcs[FuncOf(body[i])] # Undefined

\* set with unit name bound to body.
WithUnit(set, name, body) ==
    [set EXCEPT !.units = [n \in (DOMAIN set.units) \cup {name} |->
                              IF n = name THEN body ELSE set.units[n]]]

\* (*Template).Lookup(name): the unit, or Absent.
Absent == <<"<nil>">>
Lookup(set, name) == IF name \in DOMAIN set.units THEN set.units[name] ELSE Absent

\* ------------------------------------------------------------ file systems

\* One entry of a file tree: its path below the root, whether it is a
\* directory, and (for a file) its contents when the renderer is built.
Entry(rel, isDir, body) == [rel |-> rel, isDir |-> isDir, body |-> body]

Tmpl(stem) == stem \o <<".", "tmpl">>

\* templates/: the layout example of the README plus a template that calls
\* current.
BasicTree ==
    << Entry(<<".">>, TRUE, <<>>),
       Entry(Tmpl(<<"cur">>), FALSE, <<"[", "{{current}}", "]">>),
       Entry(Tmpl(<<"hello">>), FALSE, <<"Hello ", "{{.}}">>),
       Entry(Tmpl(<<"layout">>), FALSE, <<"<h1>", "{{yield}}", "</h1>">>) >>

\* testdata/template-dir-test of the lookup tests: a directory whose own
\* name ends in a configured extension.
DirTestTree ==
    << Entry(<<".">>, TRUE, <<>>),
       Entry(Tmpl(<<"0">>), FALSE, <<"zero">>),
       Entry(Tmpl(<<"dedicated">>), TRUE, <<>>),
       Entry(Tmpl(<<"dedicated">>) \o <<"/">> \o Tmpl(<<"notbad">>), FALSE, <<"notbad">>),
       Entry(<<"subdir">>, TRUE, <<>>),
       Entry(<<"subdir", "/">> \o Tmpl(<<"1">>), FALSE, <<"one">>) >>

\* A tree with no dot in any directory name: files of both extensions and a
\* file that is no template.
FlatTree ==
    << Entry(<<".">>, TRUE, <<>>),
       Entry(Tmpl(<<"0">>), FALSE, <<"zero">>),
       Entry(<<"notes", ".", "txt">>, FALSE, <<"{{">>),
       Entry(<<"subdir">>, TRUE, <<>>),
       Entry(<<"subdir", "/", "1", ".", "html">>, FALSE, <<"one">>) >>

\* A tree whose names hold more than one dot: in file names and in a
\* directory name.
DottedTree ==
    << Entry(<<".">>, TRUE, <<>>),
       Entry(<<"home", ".", "min", ".", "tmpl">>, FALSE, <<"home">>),
       Entry(Tmpl(<<"index">>), FALSE, <<"index">>),
       Entry(<<"site", ".", "min", ".", "html">>, FALSE, <<"site">>),
       Entry(<<"sub">>, TRUE, <<>>),
       Entry(<<"sub", "/">> \o Tmpl(<<"a">>), FALSE, <<"a">>),
       Entry(<<"v1", ".", "0">>, TRUE, <<>>),
       Entry(<<"v1", ".", "0", "/">> \o Tmpl(<<"page">>), FALSE, <<"page">>) >>

\* The path Walk reports for an entry: the root for the root, otherwise
\* root joined with the entry's path (a root of "." is cleaned away).
WalkPath(root, rel) ==
    IF rel = <<".">> THEN root
    ELSE IF root = <<".">> THEN rel
    ELSE root \o <<Separator>> \o rel

\* The contents of an entry the process has no permission to read: a
\* directory that cannot be listed, a file that cannot be opened.
Denied == <<"<permission denied>">>

\* A tree with a directory that cannot be listed.
DeniedTree ==
    << Entry(<<".">>, TRUE, <<>>),
       Entry(Tmpl(<<"0">>), FALSE, <<"zero">>),
       Entry(<<"private">>, TRUE, Denied),
       Entry(<<"private", "/">> \o Tmpl(<<"1">>), FALSE, <<"one">>),
       Entry(Tmpl(<<"z">>), FALSE, <<"zed">>) >>

\* Is entry i inside a directory that cannot be listed?
Hidden(tree, i) ==
    \E d \in 1..Len(tree) :
        /\ tree[d].isDir /\ tree[d].body = Denied
        /\ d # i
        /\ HasPrefix(tree[i].rel, tree[d].rel \o <<Separator>>)

\* One call of walkFn(path, info, err).
Visit(root, tree, i, err) ==
    [path |-> WalkPath(root, tree[i].rel), isDir |-> tree[i].isDir,
     idx |-> i, err |-> err]

RECURSIVE WalkFrom(_, _, _, _)
\* The calls of walkFn for the entries from i on, in lexical order.  Every
\* entry that can be reached is visited, directories included.  A directory
\* that cannot be listed is visited, its entries are not, and the failure
\* is reported in a provider's own way:
\*   - filepath.Walk (osFileSystem) calls walkFn for it once more, with the
\*     error, and goes on when walkFn returns nil;
\*   - EmbedFileSystem.Walk drops the error and calls walkFn once more
\*     without it;
\*   - tmplFS.Walk returns the error without calling walkFn: the walk ends.
WalkFrom(fsys, root, tree, i) ==
    IF i > Len(tree) THEN <<>>
    ELSE IF Hidden(tree, i) THEN WalkFrom(fsys, root, tree, i + 1)
    ELSE IF tree[i].isDir /\ tree[i].body = Denied
        THEN IF fsys \in {"fs-dir", "fs-embed"}
               THEN << Visit(root, tree, i, "") >>
               ELSE << Visit(root, tree, i, ""),
                       Visit(root, tree, i, IF fsys = "os" THEN "denied" ELSE "") >>
                    \o WalkFrom(fsys, root, tree, i + 1)
    ELSE << Visit(root, tree, i, "") >> \o WalkFrom(fsys, root, tree, i + 1)

\* FileSystem.Walk(root, walkFn): the calls of walkFn it makes, the root
\* first.  Its own result, the error that ended the walk if any,
\* compileTemplates throws away.
Walk(fsys, root, tree) == WalkFrom(fsys, root, tree, 1)

\* FileSystem.ReadFile(path) of the entry with index idx: reading a
\* directory fails with every provider, and so does reading a file the
\* process may not open.
ReadErr == <<"<read error>">>
ReadFile(fsys, tree, files, idx) ==
    IF tree[idx].isDir \/ files[idx] = Denied THEN ReadErr ELSE files[idx]

\* ---------------------------------------------------------------- options

Options(dir, layout, exts, dev, fsys, tree) ==
    [Directory |-> dir, Layout |-> layout, Extensions |-> exts, Funcs |-> <<>>,
     Charset |-> "", HTMLContentType |-> "", IsDevelopment |-> dev,
     UseMutexLock |-> FALSE, FileSystem |-> fsys, tree |-> tree]

\* prepareOptions: fill in the defaults.
prepareOptions(o) ==
    [o EXCEPT
       !.Charset = IF Len(o.Charset) = 0 THEN defaultCharset ELSE o.Charset,
       !.Directory = IF Len(o.Directory) = 0 THEN <<"templates">> ELSE o.Directory,
       !.Extensions = IF Len(o.Extensions) = 0 THEN << <<".", "tmpl">> >>
                      ELSE o.Extensions,
       !.HTMLContentType = IF Len(o.HTMLContentType) = 0 THEN ContentHTML
                           ELSE o.HTMLContentType]

compiledCharset(o) == "; charset=" \o o.Charset

\* A renderer that always takes the mutex.
lockAlwaysMutex(o) == "RWMutex"

\* The lock New gives the renderer: the sync.RWMutex in development mode or
\* when UseMutexLock asks for it, the emptyLock otherwise.
lockFor(o) ==
    IF o.IsDevelopment \/ o.UseMutexLock THEN "RWMutex" ELSE "emptyLock"

BothExts == << <<".", "tmpl">>, <<".", "html">> >>
TestDir == <<"testdata", "/", "template-dir-test">>

\* The renderers the model builds: the README's, static and development,
\* without and with an instance layout; and those of the lookup tests, one
\* per file-system provider.
Configs ==
    { Options(<<>>, <<>>, <<>>, dev, "os", BasicTree) : dev \in BOOLEAN }
    \cup { Options(<<>>, <<"layout">>, <<>>, dev, "os", BasicTree) : dev \in BOOLEAN }
    \cup { Options(TestDir, <<>>, BothExts, FALSE, "embed", DirTestTree),
           Options(TestDir, <<>>, BothExts, FALSE, "fs-embed", DirTestTree),
           Options(<<".">>, <<>>, BothExts, FALSE, "fs-dir", DirTestTree),
           Options(<<"views">>, <<>>, BothExts, FALSE, "os", FlatTree),
           Options(<<"views">>, <<>>, <<>>, FALSE, "os", FlatTree) }

\* ------------------------------------------------------------------ state

VARIABLES
    opt,        \* r.opt after prepareOptions
    lock,       \* r.lock: "RWMutex" or "emptyLock"
    files,      \* contents of the tree's entries, by index (the disk)
    nedits,     \* edits of the disk so far
    sets,       \* every template set allocated so far (the heap)
    templates,  \* r.templates: index into sets, 0 for nil
    pc,         \* where each goroutine is; goroutine 0 runs New
    call,       \* the arguments of each goroutine's render call
    loc,        \* the locals of each goroutine's render call
    resp,       \* the http.ResponseWriter of each goroutine's call
    ncalls,     \* render calls started so far
    everLayout  \* some HTML call of this renderer was rendered under a layout

vars == <<opt, lock, files, nedits, sets, templates, pc, call, loc, resp, ncalls,
          everLayout>>

Procs == 1..NProcs
Main == 0

\* The arguments render calls are made with.
CallNames == {<<"hello">>, <<"cur">>, <<"layout">>}
Bindings == {"gophers", "world"}
Statuses == {299}
\* htmlOpt ...HTMLOptions: none, or one HTMLOptions with its Layout.
HTMLOpts == {<<>>} \cup { <<[Layout |-> l]>> : l \in {<<>>, <<"layout">>} }

\* The edits made to the disk between requests: a file gets other text, or
\* text with a syntax error.
Edits ==
    { [rel |-> Tmpl(<<"hello">>), body |-> <<"Bye ", "{{.}}">>],
      [rel |-> Tmpl(<<"hello">>), body |-> <<"Hello ", "{{">>] }

NoCall == [kind |-> "", name |-> <<>>, binding |-> "", status |-> 0, htmlOpt |-> <<>>]

\* Locals: i the walk position, name the template to execute, frames the
\* stack of running template executions, err the error r.execute returned,
\* panic the panic that ended the call.  For the properties: seen, the unit
\* names of every set this call
\* looked a template up in, as they were then; before, the set r.templates
\* pointed to when the call began.
NoLoc == [i |-> 0, name |-> <<>>, frames |-> <<>>, err |-> "", seen |-> {},
          before |-> 0, panic |-> ""]

\* A response nothing was written to; ret is what the call returned.
NoResult == "<no result>"
NoResp == [code |-> 0, ctype |-> "", body |-> "", ret |-> NoResult]

\* New(options) for one of the given Options values, before it compiles.
InitWith(configs) ==
    /\ opt \in { prepareOptions(o) : o \in configs }
    /\ lock = lockFor(opt)
    /\ files = [i \in 1..Len(opt.tree) |-> opt.tree[i].body]
    /\ nedits = 0
    /\ sets = <<>>
    /\ templates = 0
    /\ pc = [p \in {Main} \cup Procs |-> IF p = Main THEN "compile" ELSE "idle"]
    /\ call = [p \in {Main} \cup Procs |-> NoCall]
    /\ loc = [p \in {Main} \cup Procs |-> NoLoc]
    /\ resp = [p \in {Main} \cup Procs |-> NoResp]
    /\ ncalls = 0
    /\ everLayout = FALSE

Init == InitWith(Configs)

\* A goroutine whose stack outgrew its limit ends the whole process.
Alive == \A p \in {Main} \cup Procs : pc[p] # "diverged"

\* --------------------------------------------------------- compileTemplates

\* r.templates = template.New(dir); r.templates.Delims(...): the fresh,
\* empty set is installed before the walk fills it.
CompileNew(p) ==
    /\ Alive
    /\ pc[p] = "compile"
    /\ sets' = Append(sets, NewSet)
    /\ templates' = Len(sets) + 1
    /\ loc' = [loc EXCEPT ![p].i = 1]
    /\ pc' = [pc EXCEPT ![p] = "walk"]
    /\ UNCHANGED <<opt, lock, files, nedits, call, resp, ncalls, everLayout>>

\* The first configured extension equal to ext, 0 when none is.
RECURSIVE MatchFrom(_, _, _)
MatchFrom(exts, ext, k) ==
    IF k > Len(exts) THEN 0
    ELSE IF exts[k] = ext THEN k
    ELSE MatchFrom(exts, ext, k + 1)

\* The table with helperFuncs attached first and the configured bundles
\* after them.
unitFuncsStandInsFirst(table, o) == FuncsAll(Funcs(table, helperFuncs), o.Funcs)

\* The function table a unit is parsed with: the configured bundles, then
\* helperFuncs.
unitFuncs(table, o) == Funcs(FuncsAll(table, o.Funcs), helperFuncs)

\* The walk callback for one visited entry e, on the set r.templates points
\* to at that moment.  Result: the set afterwards and "" or the panic.
\*   - every entry is treated alike, directory or not;
\*   - the error the walk reports for an entry (e.err) is overwritten by
\*     the result of filepath.Rel and never looked at;
\*   - an entry whose extension equals no configured one is skipped;
\*   - a matched entry is read (a failure panics), registered under its name,
\*     given its function maps and parsed (a failure panics, template.Must).
walkFn(set, e, o, disk) ==
    LET rel == Rel(o.Directory, e.path)
        ext == ExtOf(rel)
        name == ToSlash(NameOf(rel, ext))
        buf == ReadFile(o.FileSystem, o.tree, disk, e.idx)
        table == unitFuncs(set.funcs, o)
    IN  IF MatchFrom(o.Extensions, ext, 1) = 0
            THEN [set |-> set, panic |-> ""]
        ELSE IF buf = ReadErr
            THEN [set |-> set, panic |-> "read"]
        ELSE IF ~ParseOK(buf, table, set.escaped)
            THEN [set |-> [WithUnit(set, name, Incomplete) EXCEPT !.funcs = table],
                  panic |-> "parse"]
        ELSE [set |-> [WithUnit(set, name, buf) EXCEPT !.funcs = table],
              panic |-> ""]

\* One callback of the walk; after the last entry compileTemplates returns:
\* New is done, HTML goes on to its options.
WalkStep(p) ==
    /\ Alive
    /\ pc[p] = "walk"
    /\ LET entries == Walk(opt.FileSystem, opt.Directory, opt.tree)
           r == walkFn(sets[templates], entries[loc[p].i], opt, files)
       IN  /\ sets' = [sets EXCEPT ![templates] = r.set]
           /\ IF r.panic # ""
                THEN /\ pc' = [pc EXCEPT ![p] = "panicked"]
                     /\ loc' = [loc EXCEPT ![p].panic = r.panic]
              ELSE IF loc[p].i = Len(entries)
                THEN /\ pc' = [pc EXCEPT ![p] = IF p = Main THEN "ready" ELSE "prepare"]
                     /\ loc' = loc
              ELSE /\ pc' = pc
                   /\ loc' = [loc EXCEPT ![p].i = @ + 1]
    /\ UNCHANGED <<opt, lock, files, nedits, templates, call, resp, ncalls, everLayout>>

\* ------------------------------------------------------------ execution

ErrNoLayout == "yield called with no layout defined"
ErrUndefined == "html/template: template is undefined"
ErrIncomplete == "html/template: template is an incomplete template"

\* One running ExecuteTemplate: the set the template was found in, its
\* name, the parsed body found, the data it runs with, the position in the
\* body and the buffer written so far.
Frame(set, name, body, binding) ==
    [set |-> set, name |-> name, body |-> body, binding |-> binding,
     pos |-> 1, buf |-> ""]

Top(fr) == fr[Len(fr)]

\* Has the outermost execution run to its end?
Finished(fr) == Len(fr) = 1 /\ Top(fr).pos > Len(Top(fr).body)

RECURSIVE Advance(_)
\* Run the executions of a stack on, as far as they go without touching the
\* shared set: literal text and {{.}} are written to the buffer of the
\* innermost execution; an execution that ends hands its buffer to the
\* yield call that started it.  Stops before a function call, or Finished.
Advance(fr) ==
    LET top == Top(fr)
    IN  IF top.pos > Len(top.body)
          THEN IF Len(fr) = 1 THEN fr
               ELSE LET parent == fr[Len(fr) - 1]
                        joined == [parent EXCEPT !.buf = @ \o top.buf, !.pos = @ + 1]
                    IN  Advance(Append(SubSeq(fr, 1, Len(fr) - 2), joined))
        ELSE IF FuncOf(top.body[top.pos]) # "" THEN fr
        ELSE LET item == top.body[top.pos]
                 text == IF item = "{{.}}" THEN top.binding ELSE item
             IN  Advance([fr EXCEPT ![Len(fr)] =
                             [top EXCEPT !.buf = @ \o text, !.pos = @ + 1]])

\* r.execute(name, binding) -> r.templates.ExecuteTemplate(buf, name, ...),
\* started below the executions fr: the template is looked up in the set
\* r.templates points to now.  err "" when it was found and started.
Enter(fr, name, binding) ==
    LET unit == Lookup(sets[templates], name)
    IN  IF unit = Absent THEN [err |-> ErrUndefined, frames |-> fr]
        ELSE IF unit = Incomplete THEN [err |-> ErrIncomplete, frames |-> fr]
        ELSE [err |-> "", frames |-> Append(fr, Frame(templates, name, unit, binding))]

\* The function call the innermost execution stands at, on the function
\* table of that execution's set as it is now.
\*   current: "" from the stand-in, the bound name after addYield;
\*   yield:   an error from the stand-in; after addYield the bound template
\*            is executed with the bound data (Enter) and its output inserted;
\*   a function of an application's FuncMap returns its text.
CallFunc(fr) ==
    LET top == Top(fr)
        f == FuncOf(top.body[top.pos])
        impl == sets[top.set].funcs[f]
        wrote(text) == [fr EXCEPT ![Len(fr)] =
                           [top EXCEPT !.buf = @ \o text, !.pos = @ + 1]]
    IN  IF impl.kind = "currentEmpty" THEN [err |-> "", frames |-> wrote("")]
        ELSE IF impl.kind = "current"
            THEN [err |-> "", frames |-> wrote(JoinStr(impl.name))]
        ELSE IF impl.kind = "yield" THEN Enter(fr, impl.name, impl.binding)
        ELSE IF impl.kind = "user" THEN [err |-> "", frames |-> wrote(impl.binding)]
        ELSE [err |-> ErrNoLayout, frames |-> fr]

\* ------------------------------------------------------------ Render.HTML

Idle(p) == pc[p] \in {"idle", "done", "panicked"}

\* HTML with the recompilation left out.
htmlEntryNoRecompile(o) == "prepare"

\* HTML recompiling whatever the mode.
htmlEntryAlways(o) == "compile"

\* if r.opt.IsDevelopment { r.compileTemplates() }: where HTML goes first.
htmlEntry(o) == IF o.IsDevelopment THEN "compile" ELSE "prepare"

\* The entry of HTML(w, status, name, binding, htmlOpt...).  Goroutines are
\* interchangeable: they are taken into use in the order of their numbers.
HTMLBegin(p, name, binding, status, htmlOpt) ==
    /\ Alive
    /\ pc[Main] = "ready"
    /\ Idle(p)
    /\ \A q \in Procs : q < p => pc[q] # "idle"
    /\ ncalls < MaxCalls
    /\ ncalls' = ncalls + 1
    /\ call' = [call EXCEPT ![p] = [kind |-> "HTML", name |-> name,
                                    binding |-> binding, status |-> status,
                                    htmlOpt |-> htmlOpt]]
    /\ loc' = [loc EXCEPT ![p] = [NoLoc EXCEPT !.before = templates]]
    /\ resp' = [resp EXCEPT ![p] = NoResp]
    /\ pc' = [pc EXCEPT ![p] = htmlEntry(opt)]
    /\ UNCHANGED <<opt, lock, files, nedits, sets, templates, everLayout>>

\* prepareHTMLOptions: the call's own HTMLOptions, else the instance layout.
prepareHTMLOptions(htmlOpt) ==
    IF Len(htmlOpt) > 0 THEN htmlOpt[1] ELSE [Layout |-> opt.Layout]

\* addYield that binds nothing.
addYieldKeeps(set, name, binding) == set

\* addYield(name, binding): r.templates.Funcs(funcs) rebinds yield and
\* current in the table of the set r.templates points to.
addYield(set, name, binding) ==
    [set EXCEPT !.funcs = Funcs(@, yieldFuncs(name, binding))]

\* opt := r.prepareHTMLOptions(htmlOpt); with a layout: addYield and the
\* layout becomes the template to execute.
HTMLPrepare(p) ==
    /\ Alive
    /\ pc[p] = "prepare"
    /\ LET o == prepareHTMLOptions(call[p].htmlOpt)
       IN  IF Len(o.Layout) > 0
             THEN /\ sets' = [sets EXCEPT ![templates] =
                                 addYield(@, call[p].name, call[p].binding)]
                  /\ loc' = [loc EXCEPT ![p].name = o.Layout]
                  /\ everLayout' = TRUE
             ELSE /\ sets' = sets
                  /\ loc' = [loc EXCEPT ![p].name = call[p].name]
                  /\ everLayout' = everLayout
    /\ pc' = [pc EXCEPT ![p] = "execute"]
    /\ UNCHANGED <<opt, lock, files, nedits, templates, call, resp, ncalls>>

\* http.Error(w, err.Error(), http.StatusInternalServerError)
httpError(msg) ==
    [code |-> StatusInternalServerError, ctype |-> "text/plain; charset=utf-8",
     body |-> msg, ret |-> NoResult]

\* w.Header().Set(ContentType, ...); w.WriteHeader(status); w.Write(out)
htmlWrite(status, out) ==
    [code |-> status, ctype |-> opt.HTMLContentType \o compiledCharset(opt),
     body |-> out, ret |-> NoResult]

\* What HTML does with the outcome r of a step of its execution: an error
\* is answered with http.Error; a finished
\* execution is written out; nesting beyond MaxDepth is unbounded recursion;
\* otherwise the execution stands at its next function call.
Outcome(p, r, seenNames) ==
    LET fr == IF r.err = "" THEN Advance(r.frames) ELSE r.frames
        seen == loc[p].seen \cup seenNames
    IN  IF r.err # ""
          THEN /\ resp' = [resp EXCEPT ![p] = httpError(r.err)]
               /\ loc' = [loc EXCEPT ![p].frames = <<>>, ![p].err = r.err,
                                     ![p].seen = seen]
               /\ pc' = [pc EXCEPT ![p] = "done"]
        ELSE IF Len(fr) > MaxDepth
          THEN /\ resp' = resp
               /\ loc' = [loc EXCEPT ![p].frames = <<>>, ![p].seen = seen]
               /\ pc' = [pc EXCEPT ![p] = "diverged"]
        ELSE IF Finished(fr)
          THEN /\ resp' = [resp EXCEPT ![p] = htmlWrite(call[p].status, Top(fr).buf)]
               /\ loc' = [loc EXCEPT ![p].frames = <<>>, ![p].seen = seen]
               /\ pc' = [pc EXCEPT ![p] = "done"]
        ELSE /\ resp' = resp
             /\ loc' = [loc EXCEPT ![p].frames = fr, ![p].seen = seen]
             /\ pc' = [pc EXCEPT ![p] = "run"]

\* out, err := r.execute(name, binding): the lookup marks the set executed.
HTMLExecute(p) ==
    /\ Alive
    /\ pc[p] = "execute"
    /\ sets' = [sets EXCEPT ![templates].escaped = TRUE]
    /\ Outcome(p, Enter(<<>>, loc[p].name, call[p].binding),
               {DOMAIN sets[templates].units})
    /\ UNCHANGED <<opt, lock, files, nedits, templates, call, ncalls, everLayout>>

\* The execution calls yield or current.
HTMLCall(p) ==
    /\ Alive
    /\ pc[p] = "run"
    /\ LET fr == loc[p].frames
           top == Top(fr)
           nested == sets[top.set].funcs[FuncOf(top.body[top.pos])].kind = "yield"
       IN  /\ sets' = IF nested THEN [sets EXCEPT ![templates].escaped = TRUE] ELSE sets
           /\ Outcome(p, CallFunc(fr), IF nested THEN {DOMAIN sets[templates].units} ELSE {})
    /\ UNCHANGED <<opt, lock, files, nedits, templates, call, ncalls, everLayout>>

\* -------------------------------------------------------------- engine.go

\* A value no encoder accepts (NaN for JSON, a map for XML).
Unsupported == "<unsupported>"
Values == {"gophers", Unsupported}
ErrMarshal == "unsupported value"

\* json.Marshal / json.MarshalIndent: a string is quoted, with or without
\* indentation.
jsonMarshal(v, indent) ==
    IF v = Unsupported THEN [err |-> ErrMarshal, result |-> ""]
    ELSE [err |-> "", result |-> "\"" \o v \o "\""]

\* xml.Marshal / xml.MarshalIndent
xmlMarshal(v, indent) ==
    IF v = Unsupported THEN [err |-> ErrMarshal, result |-> ""]
    ELSE [err |-> "", result |-> "<string>" \o v \o "</string>"]

\* type Head struct { ContentType string; Status int }
HeadOf(contentType, status) == [ContentType |-> contentType, Status |-> status]

\* The engines callers hand to Render.
Engines ==
    { [kind |-> k, Head |-> HeadOf(ct, st), Indent |-> ind, Prefix |-> pre] :
        k \in {"JSON", "XML"}, ct \in {ContentJSON \o "; charset=UTF-8"},
        st \in Statuses, ind \in BOOLEAN, pre \in {"", ")]}',"} }

\* JSON.Render and XML.Render: marshal; on failure return the error with
\* nothing written; otherwise Head.Write, the prefix, the result, and nil.
engineRender(e, v) ==
    LET m == IF e.kind = "JSON" THEN jsonMarshal(v, e.Indent)
             ELSE xmlMarshal(v, e.Indent)
    IN  IF m.err # "" THEN [NoResp EXCEPT !.ret = m.err]
        ELSE [code |-> e.Head.Status, ctype |-> e.Head.ContentType,
              body |-> (IF Len(e.Prefix) > 0 THEN e.Prefix ELSE "") \o m.result,
              ret |-> "<nil>"]

\* A goroutine renders v with engine e on a fresh response.
EngineRender(p, e, v) ==
    /\ Alive
    /\ pc[Main] = "ready"
    /\ Idle(p)
    /\ \A q \in Procs : q < p => pc[q] # "idle"
    /\ ncalls < MaxCalls
    /\ ncalls' = ncalls + 1
    /\ call' = [call EXCEPT ![p] = [kind |-> e.kind, name |-> <<>>, binding |-> v,
                                    status |-> e.Head.Status, htmlOpt |-> <<>>]]
    /\ loc' = [loc EXCEPT ![p] = NoLoc]
    /\ resp' = [resp EXCEPT ![p] = engineRender(e, v)]
    /\ pc' = [pc EXCEPT ![p] = "done"]
    /\ UNCHANGED <<opt, lock, files, nedits, sets, templates, everLayout>>

\* ------------------------------------------------------- Data and Text

\* The Content-Type a handler may have set on the response before it calls
\* the renderer ("" for none).
PresetTypes == {"", "text/css"}

\* Data.Render that writes its own head whatever the response holds.
dataRenderOwnHead(w, d, v) ==
    [code |-> d.Head.Status, ctype |-> d.Head.ContentType, body |-> v,
     ret |-> "<nil>"]

\* Data.Render on the response w: a Content-Type already in the header takes
\* the place of the engine's; Head.Write; the bytes.
dataRender(w, d, v) ==
    LET c == w.ctype
        head == IF c # "" THEN [d.Head EXCEPT !.ContentType = c] ELSE d.Head
    IN  [code |-> head.Status, ctype |-> head.ContentType, body |-> v,
         ret |-> "<nil>"]

\* Render.Data(w, status, v): ContentBinary unless a Content-Type is set.
renderData(w, status, v) ==
    [code |-> status,
     ctype |-> IF w.ctype = "" THEN ContentBinary ELSE w.ctype,
     body |-> v, ret |-> NoResult]

\* Text.Render on the response w: as Data.Render, for a string.
textRender(w, t, v) ==
    LET c == w.ctype
        head == IF c # "" THEN [t.Head EXCEPT !.ContentType = c] ELSE t.Head
    IN  [code |-> head.Status, ctype |-> head.ContentType, body |-> v,
         ret |-> "<nil>"]

\* The raw renderers a handler may call: the Data and Text engines with the
\* heads the renderer gives them, and Render.Data.
RawEngines ==
    { [kind |-> "Data", Head |-> HeadOf(ContentBinary, st)] : st \in Statuses }
    \cup { [kind |-> "Text",
            Head |-> HeadOf(ContentText \o compiledCharset(opt), st)] :
              st \in Statuses }
    \cup { [kind |-> "Render.Data", Head |-> HeadOf("", st)] : st \in Statuses }

rawRender(w, e, v) ==
    IF e.kind = "Data" THEN dataRender(w, e, v)
    ELSE IF e.kind = "Text" THEN textRender(w, e, v)
    ELSE renderData(w, e.Head.Status, v)

\* An http.Handler starts on a fresh response and sets its Content-Type, or
\* leaves it unset.
HandlerBegin(p, ct) ==
    /\ Alive
    /\ pc[Main] = "ready"
    /\ \A q \in Procs : Idle(q)
    /\ \A q \in Procs : q < p => pc[q] # "idle"
    /\ ncalls < MaxCalls
    /\ ncalls' = ncalls + 1
    /\ call' = [call EXCEPT ![p] = NoCall]
    /\ loc' = [loc EXCEPT ![p] = NoLoc]
    /\ resp' = [resp EXCEPT ![p] = [NoResp EXCEPT !.ctype = ct]]
    /\ pc' = [pc EXCEPT ![p] = "handler"]
    /\ UNCHANGED <<opt, lock, files, nedits, sets, templates, everLayout>>

\* The handler renders v with a raw renderer on its response.
RawRender(p, e, v) ==
    /\ Alive
    /\ pc[p] = "handler"
    /\ call' = [call EXCEPT ![p] = [kind |-> e.kind, name |-> <<>>, binding |-> v,
                                    status |-> e.Head.Status, htmlOpt |-> <<>>]]
    /\ resp' = [resp EXCEPT ![p] = rawRender(resp[p], e, v)]
    /\ pc' = [pc EXCEPT ![p] = "done"]
    /\ UNCHANGED <<opt, lock, files, nedits, sets, templates, loc, ncalls,
                   everLayout>>

\* ---------------------------------------------------------------- the disk

\* A template file is edited while no request is being served.
EditFile(i, body) ==
    /\ Alive
    /\ pc[Main] = "ready"
    /\ \A p \in Procs : Idle(p)
    /\ nedits < MaxEdits
    /\ [rel |-> opt.tree[i].rel, body |-> body] \in Edits
    /\ ~opt.tree[i].isDir
    /\ files[i] # body
    /\ files' = [files EXCEPT ![i] = body]
    /\ nedits' = nedits + 1
    /\ UNCHANGED <<opt, lock, sets, templates, pc, call, loc, resp, ncalls, everLayout>>

\* ------------------------------------------------------------------- specs

\* The steps of New and of the render calls.
Calls ==
    \/ \E p \in {Main} \cup Procs : CompileNew(p)
    \/ \E p \in {Main} \cup Procs : WalkStep(p)
    \/ \E p \in Procs : HTMLPrepare(p)
    \/ \E p \in Procs : HTMLExecute(p)
    \/ \E p \in Procs : HTMLCall(p)

\* Requests are served concurrently, the disk is left alone.
Next ==
    \/ Calls
    \/ \E p \in Procs, e \in Engines, v \in Values : EngineRender(p, e, v)
    \/ \E p \in Procs, name \in CallNames, binding \in Bindings,
          status \in Statuses, htmlOpt \in HTMLOpts :
            HTMLBegin(p, name, binding, status, htmlOpt)

Spec == Init /\ [][Next]_vars

\* Requests are served one after the other, and the disk may be edited
\* between them.
NextSeq ==
    \/ Calls
    \/ \E p \in Procs, e \in Engines, v \in Values : EngineRender(p, e, v)
    \/ \E p \in Procs, name \in CallNames, binding \in Bindings,
          status \in Statuses, htmlOpt \in HTMLOpts :
            /\ \A q \in Procs : Idle(q)
            /\ HTMLBegin(p, name, binding, status, htmlOpt)
    \/ \E i \in 1..Len(files), body \in { e.body : e \in Edits } : EditFile(i, body)

SpecSeq == Init /\ [][NextSeq]_vars

\* Renderers built with further options: every combination of IsDevelopment
\* and UseMutexLock (TestLockConfig).
LockConfigs ==
    { [Options(<<>>, <<>>, <<>>, dev, "os", BasicTree) EXCEPT !.UseMutexLock = mu] :
        dev \in BOOLEAN, mu \in BOOLEAN }

\* A renderer with a Charset of its own (TestTextSuppliedCharset).
CharsetConfigs ==
    { [Options(<<"views">>, <<>>, <<>>, FALSE, "os", FlatTree)
         EXCEPT !.Charset = "foobar"] }

\* A renderer over the dotted tree, one of its extensions a compound one.
DottedExts == << <<".", "tmpl">>, <<".", "min", ".", "html">> >>
DottedConfigs == { Options(<<"views">>, <<>>, DottedExts, FALSE, "os", DottedTree) }

\* A renderer with two FuncMaps of the application: both define title, the
\* first also yield, the second also current.
AppHelpers ==
    << [f \in {"title", "yield"} |-> UserFunc("one")],
       [f \in {"title", "current"} |-> UserFunc("two")] >>
FuncConfigs ==
    { [Options(<<>>, <<>>, <<>>, FALSE, "os", BasicTree) EXCEPT !.Funcs = AppHelpers] }

\* Renderers over the tree with the unreadable directory.
DeniedConfigs ==
    { Options(<<"views">>, <<>>, <<>>, FALSE, "os", DeniedTree),
      Options(<<".">>, <<>>, <<>>, FALSE, "fs-dir", DeniedTree) }

OptConfigs ==
    LockConfigs \cup CharsetConfigs \cup DottedConfigs \cup FuncConfigs
        \cup DeniedConfigs

InitOpts == InitWith(OptConfigs)

\* These renderers serve their requests one after the other.
NextOpts ==
    \/ NextSeq
    \/ \E p \in Procs, ct \in PresetTypes : HandlerBegin(p, ct)
    \/ \E p \in Procs, e \in RawEngines, v \in Bindings : RawRender(p, e, v)

SpecOpts == InitOpts /\ [][NextOpts]_vars

\* TemplateLookup(name): the unit of that name in the current set.
TemplateLookup(name) == Lookup(sets[templates], name)

\* ============================================================== properties

\* --- What the files should render to, written from the template texts ---

RECURSIVE Rendered(_, _, _, _)
\* The text a body stands for when {{.}} is binding, {{current}} is cur and
\* {{yield}} is inner.
Rendered(body, binding, cur, inner) ==
    IF body = <<>> THEN ""
    ELSE (IF Head(body) = "{{.}}" THEN binding
          ELSE IF Head(body) = "{{current}}" THEN cur
          ELSE IF Head(body) = "{{yield}}" THEN inner
          ELSE Head(body))
         \o Rendered(Tail(body), binding, cur, inner)

Has(body, item) == \E i \in 1..Len(body) : body[i] = item

\* The tree entry a template name comes from, 0 when there is none.
FileOf(name) ==
    LET hits == { i \in 1..Len(opt.tree) :
                    ~opt.tree[i].isDir /\ opt.tree[i].rel = Tmpl(name) }
    IN  IF hits = {} THEN 0 ELSE CHOOSE i \in hits : TRUE

\* The text of that file the renderer is to serve: as it is now in
\* development mode, as it was at construction otherwise.
Served(name) ==
    IF opt.IsDevelopment THEN files[FileOf(name)] ELSE opt.tree[FileOf(name)].body

\* The layout the call of p is rendered under ("" for none).
LayoutOf(p) ==
    IF Len(call[p].htmlOpt) > 0 THEN call[p].htmlOpt[1].Layout ELSE opt.Layout

\* p has finished an HTML call.
DoneHTML(p) == pc[p] = "done" /\ call[p].kind = "HTML"

\* The step in which the HTML call of p returns.
Returns(p) == pc[p] # "done" /\ pc'[p] = "done" /\ call'[p].kind = "HTML"

RECURSIVE CompileFrom(_, _, _)
\* The set a whole, uninterrupted compilation of the tree leaves, starting at
\* entry i with set.
CompileFrom(set, entries, i) ==
    IF i > Len(entries) THEN set
    ELSE CompileFrom(walkFn(set, entries[i], opt, files).set, entries, i + 1)

\* The unit names of a completely compiled set.
FullNames ==
    DOMAIN CompileFrom(NewSet, Walk(opt.FileSystem, opt.Directory, opt.tree), 1).units

\* --- C1 ---
\* C1: in development mode, with HTML calls running concurrently, every set
\* a call looks a template up in (for the call's own template and for each
\* yield) is a completely compiled one: never empty, never partly filled.
C1_ReadersSeeCompleteSets ==
    opt.IsDevelopment =>
        \A p \in Procs : \A names \in loc[p].seen : names = FullNames

\* --- C2 ---
\* C2: after a reload that failed on a file with invalid syntax, the set
\* that was installed before the call is still the installed one, with the
\* units it had: nothing of the failed compilation is visible.
C2_FailedReloadKeepsPreviousSet ==
    \A p \in Procs :
        (pc[p] = "panicked" /\ loc[p].panic = "parse") =>
            /\ templates = loc[p].before
            /\ sets[templates].units = sets[loc[p].before].units
            /\ \A n \in DOMAIN sets[templates].units : TemplateLookup(n) # Incomplete

\* --- C3 ---
\* C3: a parse failure of a matched file reaches the caller as an error
\* value the call returns, never as a panic, and the set holding only the
\* files parsed before the bad one is never the installed set.
C3_ParseFailureIsErrorValue ==
    \A p \in {Main} \cup Procs :
        loc[p].panic = "parse" =>
            /\ pc[p] # "panicked"
            /\ resp[p].ret \notin {NoResult, "<nil>"}
            /\ DOMAIN sets[templates].units = FullNames
            /\ \A n \in DOMAIN sets[templates].units : TemplateLookup(n) # Incomplete

\* --- C4 ---
\* C4: in development mode an HTML call that returns has rendered the text
\* its template's file holds now, also when the file was edited after
\* earlier calls on the same renderer; the renderer is never rebuilt.
\* (Stated for a call with no layout of a template that does not call
\* yield.)
C4_DevRendersCurrentFile ==
    [][\A p \in Procs :
        (/\ Returns(p)
         /\ opt.IsDevelopment
         /\ LayoutOf(p) = <<>>
         /\ FileOf(call[p].name) # 0
         /\ ~Has(files[FileOf(call[p].name)], "{{yield}}")) =>
            /\ resp'[p].code = call[p].status
            /\ resp'[p].body =
                 Rendered(files[FileOf(call[p].name)], call[p].binding, "", "")]_vars

\* One renderer served "hello" before the edit and serves it after.
C4_Witness ==
    \E p, q \in Procs :
        /\ opt.IsDevelopment
        /\ nedits = 1
        /\ DoneHTML(p) /\ call[p].name = <<"hello">> /\ call[p].binding = "gophers"
        /\ DoneHTML(q) /\ call[q].name = <<"hello">> /\ call[q].binding = "gophers"
        /\ LayoutOf(p) = <<>> /\ LayoutOf(q) = <<>>
        /\ resp[p].body = "Hello gophers"
        /\ resp[q].body = "Bye gophers"

\* --- C5 ---

RECURSIVE LastIndex(_, _, _)
\* Position of the last occurrence of tok in s at or before i, 0 when absent.
LastIndex(s, tok, i) ==
    IF i = 0 THEN 0
    ELSE IF s[i] = tok THEN i
    ELSE LastIndex(s, tok, i - 1)

\* The extension a file name ends in: from the last "." of the last path
\* element, empty when that element holds none.
FinalExt(rel) ==
    LET dot == LastIndex(rel, ".", Len(rel))
        slash == LastIndex(rel, "/", Len(rel))
    IN  IF dot > slash THEN SubSeq(rel, dot, Len(rel)) ELSE <<>>

\* The path with that extension removed.
Stem(rel) == SubSeq(rel, 1, Len(rel) - Len(FinalExt(rel)))

Configured(ext) == \E k \in 1..Len(opt.Extensions) : opt.Extensions[k] = ext

\* C5: a renderer built with extensions [.tmpl, .html] is constructed
\* without failure, and afterwards TemplateLookup resolves every regular file
\* whose name ends in a configured extension under its relative path without
\* that extension ("0", "subdir/1", "dedicated.tmpl/notbad"), and finds
\* nothing under the name derived from a directory ("dedicated"); for every
\* file-system provider.
C5_LookupByRelativePath ==
    opt.Extensions = BothExts =>
        /\ pc[Main] # "panicked"
        /\ pc[Main] = "ready" =>
             \A i \in 1..Len(opt.tree) :
                LET e == opt.tree[i]
                IN  Configured(FinalExt(e.rel)) =>
                       TemplateLookup(Stem(e.rel)) =
                          (IF e.isDir THEN Absent ELSE e.body)

\* --- C6 ---
\* C6: an HTML call for template N with binding b under a layout L returns
\* the output of L executed with b, in which every yield stands for the
\* whole output of N executed with b and every current for the name N; the
\* response carries the requested status.
C6_LayoutWrapsInner ==
    [][\A p \in Procs :
        (/\ Returns(p)
         /\ LayoutOf(p) # <<>>
         /\ FileOf(LayoutOf(p)) # 0
         /\ FileOf(call[p].name) # 0) =>
            LET N == JoinStr(call[p].name)
                b == call[p].binding
                inner == Rendered(Served(call[p].name), b, N, "")
            IN  /\ resp'[p].code = call[p].status
                /\ resp'[p].body = Rendered(Served(LayoutOf(p)), b, N, inner)]_vars

\* "hello" with "gophers" under "layout" was served as in the README.
C6_Witness ==
    \E p \in Procs :
        /\ DoneHTML(p)
        /\ call[p].name = <<"hello">> /\ call[p].binding = "gophers"
        /\ LayoutOf(p) = <<"layout">>
        /\ resp[p].code = call[p].status
        /\ resp[p].body = "<h1>Hello gophers</h1>"

\* --- C7 ---
\* C7: on a renderer no call of which was rendered under a layout, yield and
\* current are defined in the compiled set; an HTML call with no layout of a
\* template that calls yield is answered with the error "yield called with
\* no layout defined" and status 500, and in any other template current
\* stands for the empty string and the call succeeds.
C7_StandInsWithoutLayout ==
    [][\A p \in Procs :
        (/\ Returns(p)
         /\ ~everLayout
         /\ LayoutOf(p) = <<>>
         /\ FileOf(call[p].name) # 0) =>
            /\ \A f \in {"yield", "current"} : sets[templates].funcs[f] # Undefined
            /\ IF Has(Served(call[p].name), "{{yield}}")
                 THEN /\ resp'[p].code = StatusInternalServerError
                      /\ resp'[p].body = ErrNoLayout
                 ELSE /\ resp'[p].code = call[p].status
                      /\ resp'[p].body =
                           Rendered(Served(call[p].name), call[p].binding, "", "")]_vars

\* With no layout anywhere, a template calling yield was refused and one
\* calling current was served.
C7_Witness ==
    \E p, q \in Procs :
        /\ ~everLayout
        /\ DoneHTML(p) /\ call[p].name = <<"layout">> /\ LayoutOf(p) = <<>>
        /\ resp[p].body = ErrNoLayout /\ resp[p].code = StatusInternalServerError
        /\ DoneHTML(q) /\ call[q].name = <<"cur">> /\ LayoutOf(q) = <<>>
        /\ resp[q].body = "[]" /\ resp[q].code = call[q].status

\* --- C8 ---

\* The render call of p has ended and its rendering failed: the template
\* execution for HTML, the marshaling for an engine.
RenderFailed(p) ==
    /\ pc[p] = "done"
    /\ IF call[p].kind = "HTML" THEN loc[p].err # ""
       ELSE call[p].binding = Unsupported

\* C8: a render call whose rendering failed has returned a non-nil error,
\* its response carries status 500, and nothing of the rendered payload is in
\* the response body (at most the error's message).
C8_FailedRenderIsReported ==
    \A p \in Procs :
        RenderFailed(p) =>
            /\ resp[p].ret \notin {NoResult, "<nil>"}
            /\ resp[p].code = StatusInternalServerError
            /\ resp[p].body \in {"", loc[p].err}

\* --- C9 ---
\* C9: with the set compiled once and HTML calls under a layout running
\* concurrently, every template a call executes through yield is that call's
\* own inner template with that call's own binding, and the output of a call
\* that succeeded is its layout around its own inner template, current being
\* its own inner name.
C9_NoCrossRequestInterference ==
    ~opt.IsDevelopment =>
        \A p \in Procs :
            (call[p].kind = "HTML" /\ LayoutOf(p) # <<>>) =>
                /\ \A k \in 2..Len(loc[p].frames) :
                      /\ loc[p].frames[k].name = call[p].name
                      /\ loc[p].frames[k].binding = call[p].binding
                /\ (pc[p] = "done" /\ loc[p].err = "") =>
                      LET N == JoinStr(call[p].name)
                          b == call[p].binding
                          inner == Rendered(Served(call[p].name), b, N, "")
                      IN  resp[p].body = Rendered(Served(LayoutOf(p)), b, N, inner)

\* --- C10 ---

\* The next step of the call goroutine p is in.
Step(p) ==
    \/ CompileNew(p)
    \/ WalkStep(p)
    \/ HTMLPrepare(p)
    \/ HTMLExecute(p)
    \/ HTMLCall(p)

\* The condition under which Step(p) can be taken: the process is alive and
\* p stands at one of the five steps (each of them, once reached, can be
\* carried out: none waits for another goroutine).
CanStep(p) ==
    Alive /\ pc[p] \in {"compile", "walk", "prepare", "execute", "run"}

\* p is inside a render call: it has begun one and has neither returned nor
\* failed.
Running(p) == call[p].kind # "" /\ pc[p] \notin {"done", "panicked"}

\* C10: a render call that has begun and has neither returned nor failed can
\* always take its next step, whatever the other calls do and whatever the
\* files hold; each call being a finite walk followed by a finite
\* execution, every call then returns.
C10_EveryCallGoesOn == \A p \in Procs : Running(p) => CanStep(p)

OwnType(kind) ==
    IF kind = "Text" THEN "text/plain; charset=" \o opt.Charset
    ELSE "application/octet-stream"

\* C12: a Data or Text render leaves a Content-Type the handler has set on
\* the response as it is, whatever Charset is configured, and writes its own
\* type only when none was set.
C12_SuppliedContentTypeIsKept ==
    [][\A p \in Procs :
        (pc[p] = "handler" /\ pc'[p] = "done") =>
            resp'[p].ctype =
                (IF resp[p].ctype # "" THEN resp[p].ctype
                 ELSE OwnType(call'[p].kind))]_vars

\* With Charset "foobar", a Text render kept text/css, and a Data render on
\* an unset header wrote the binary type.
C12_Witness ==
    \E p, q \in Procs :
        /\ opt.Charset = "foobar"
        /\ pc[p] = "done" /\ call[p].kind = "Text" /\ resp[p].ctype = "text/css"
        /\ pc[q] = "done" /\ call[q].kind = "Data"
        /\ resp[q].ctype = "application/octet-stream"

\* --- C13 ---

\* The first position of a "." in a path, 0 when it holds none.
FirstDot(rel) ==
    IF \E i \in 1..Len(rel) : rel[i] = "."
        THEN CHOOSE i \in 1..Len(rel) :
                rel[i] = "." /\ \A j \in 1..(i - 1) : rel[j] # "."
        ELSE 0

\* Everything from the first "." of a path on.
FromFirstDot(rel) ==
    IF FirstDot(rel) = 0 THEN <<>>
    ELSE [k \in 1..(Len(rel) - FirstDot(rel) + 1) |-> rel[FirstDot(rel) + k - 1]]

\* The path without that.
BeforeFirstDot(rel) ==
    [k \in 1..(Len(rel) - Len(FromFirstDot(rel))) |-> rel[k]]

\* The files the walk hands to the callback, as tree indexes.
WalkedFiles ==
    LET entries == Walk(opt.FileSystem, opt.Directory, opt.tree)
    IN  { entries[k].idx : k \in { j \in 1..Len(entries) : ~entries[j].isDir } }

ExtensionDirs ==
    { i \in 1..Len(opt.tree) :
        opt.tree[i].isDir /\ Configured(FinalExt(opt.tree[i].rel)) }

\* C14: compiling a tree that holds a directory whose name ends in a
\* configured extension does not fail, and no installed set holds a unit
\* under the name derived from that directory.
C14_DirectoriesAreNeverUnits ==
    \A i \in ExtensionDirs :
        /\ pc[Main] # "panicked"
        /\ templates # 0 => Stem(opt.tree[i].rel) \notin DOMAIN sets[templates].units

\* --- C15 ---

\* The call of p is inside compileTemplates: the fresh set is installed and
\* the walk is filling it.
Recompiling(p) == pc[p] = "walk"

\* The call of p has looked its template up and its execution is under way.
Executing(p) == pc[p] = "run"

\* C15: in development mode the recompilation of a call excludes every
\* other call's recompilation and every other call's template execution: at
\* most one call is recompiling, and none is while another is executing.
C15_RecompilationIsExclusive ==
    opt.IsDevelopment =>
        \A p, q \in Procs :
            (p # q /\ Recompiling(p)) => (~Recompiling(q) /\ ~Executing(q))

\* --- C16 ---
\* C16: every template a call is executing, the layout and each template
\* executed through yield below it, was found in the set the call's first
\* template was found in, also when another call installed a new set since.
C16_ExecutionStaysInOneSet ==
    \A p \in Procs :
        \A k \in 1..Len(loc[p].frames) :
            loc[p].frames[k].set = loc[p].frames[1].set

\* --- C17 ---
\* C17: whatever calls were made before, an HTML call with no layout of a
\* template that calls yield is answered with "yield called with no layout
\* defined" and status 500, and in a template that calls current that
\* function stands for the empty string; also after a call under a layout.
C17_BindingEndsWithItsCall ==
    [][\A p \in Procs :
        (/\ Returns(p)
         /\ LayoutOf(p) = <<>>
         /\ FileOf(call[p].name) # 0) =>
            IF Has(Served(call[p].name), "{{yield}}")
              THEN /\ resp'[p].code = StatusInternalServerError
                   /\ resp'[p].body = ErrNoLayout
              ELSE /\ resp'[p].code = call[p].status
                   /\ resp'[p].body =
                        Rendered(Served(call[p].name), call[p].binding, "", "")]_vars

\* --- C18 ---

\* The definition of f templates see when the FuncMaps of bundles are
\* attached one after the other: that of the last one defining f.
LastDefinition(f, bundles) ==
    LET defining == { k \in 1..Len(bundles) : f \in DOMAIN bundles[k] }
    IN  IF defining = {} THEN Undefined
        ELSE bundles[CHOOSE k \in defining : \A j \in defining : j <= k][f]

\* A compiled set whose table no layout call has touched.
FreshlyCompiled ==
    /\ pc[Main] = "ready"
    /\ ~everLayout
    /\ templates # 0
    /\ DOMAIN sets[templates].units # {}

\* C18 as stated: the stand-ins are attached first and the configured
\* FuncMaps after them in their order, so every function name stands for its
\* last definition in that sequence (a FuncMap's yield replaces the stand-in).
C18_UserBundlesAfterStandIns ==
    FreshlyCompiled =>
        \A f \in FuncNames :
            sets[templates].funcs[f] = LastDefinition(f, <<helperFuncs>> \o opt.Funcs)

\* C18 amended: the configured FuncMaps are attached in their order and the
\* stand-ins after them, so yield, current and partial always stand for the
\* built-in stand-ins and any other name for its definition in the last
\* configured FuncMap defining it.
C18_StandInsAfterUserBundles ==
    FreshlyCompiled =>
        \A f \in FuncNames :
            sets[templates].funcs[f] = LastDefinition(f, opt.Funcs \o <<helperFuncs>>)

\* A renderer with FuncMaps defining title twice and yield once was
\* compiled: title is the second FuncMap's, and a call with no layout of a
\* template that calls yield got the stand-in's error.
C18_Witness ==
    \E p \in Procs :
        /\ opt.Funcs = AppHelpers
        /\ FreshlyCompiled
        /\ sets[templates].funcs["title"] = UserFunc("two")
        /\ DoneHTML(p) /\ call[p].name = <<"layout">> /\ LayoutOf(p) = <<>>
        /\ resp[p].body = ErrNoLayout

\* --- C19 ---

\* The entries of the tree at which the file system fails during a
\* compilation: a directory that cannot be listed, a file of a configured
\* extension that cannot be read.
FailingEntries ==
    { i \in 1..Len(opt.tree) :
        /\ files[i] = Denied
        /\ ~Hidden(opt.tree, i)
        /\ opt.tree[i].isDir \/ Configured(FromFirstDot(opt.tree[i].rel)) }

\* C19: a compilation during which the file system failed at some entry
\* does not end as a successful one: the constructor does not return a
\* renderer whose set merely lacks the entries that could not be read.
C19_FileSystemFailureIsFatal ==
    FailingEntries # {} => pc[Main] # "ready"

\* --- C20 ---
\* C20: once the constructor of a static renderer (development flag false)
\* has returned, no step of any render call replaces the installed set or
\* changes the names and bodies of its units, whatever happens to the files.
C20_StaticSetIsCompiledOnce ==
    [][(~opt.IsDevelopment /\ pc[Main] = "ready") =>
          /\ templates' = templates
          /\ sets'[templates].units = sets[templates].units]_vars

\* A static renderer is serving a call begun after hello.tmpl was edited:
\* the installed set is the constructor's, and its unit "hello" has the text
\* the file had then, not the text it has now.
C20_Witness ==
    \E p \in Procs :
        /\ ~opt.IsDevelopment
        /\ nedits = 1
        /\ pc[p] = "execute" /\ call[p].name = <<"hello">>
        /\ templates = 1
        /\ files[FileOf(<<"hello">>)] # opt.tree[FileOf(<<"hello">>)].body
        /\ Lookup(sets[templates], <<"hello">>) = opt.tree[FileOf(<<"hello">>)].body

\* --- C21 ---

\* The nesting of template executions in the call of p: the layout, and
\* each template executed through yield below it.
Nesting(p) == Len(loc[p].frames)

\* C21: with requests served one after the other, every HTML call under a
\* layout comes to an end, with output or with an error: the nesting of its
\* executions through yield stays within the layout and the inner template,
\* and no call recurses until the stack of its goroutine is used up; also
\* when the inner template itself calls yield.
C21_YieldNestingIsBounded ==
    \A p \in Procs :
        /\ pc[p] # "diverged"
        /\ Nesting(p) <= 2

====
